---------------------------- MODULE Spec2Model ----------------------------
(***************************************************************************)
(* Range-aware file streaming of the async file manager (src/main.py):     *)
(* get_range_header, view_file and async_iterate_file_chunks, driven by    *)
(* the ASGI transport that consumes the StreamingResponse.                 *)
(*                                                                         *)
(* Text (the Range value, header values) is a sequence of one-character    *)
(* strings, so that parsing and formatting are computed character by       *)
(* character as Python does.  File contents are sequences of bytes.        *)
(***************************************************************************)
EXTENDS Integers, Sequences, FiniteSets, TLC

\* ---------------------------------------------------------------- bounds
\* Largest file size of the single-request specification SpecView.
MaxFileSize == 10
\* Largest file size of the concurrent specification Spec.
MaxSharedSize == 3
\* Number of concurrent view requests of Spec.
NumRequests == 2
\* async_iterate_file_chunks' chunk_size (1024 * 1024 in the source), scaled.
chunk_size == 2

\* ------------------------------------------------------------------ text
Digits == <<"0", "1", "2", "3", "4", "5", "6", "7", "8", "9">>

IsDigit(c) == \E i \in 1..10 : Digits[i] = c

DigitVal(c) == (CHOOSE i \in 1..10 : Digits[i] = c) - 1

bytes_eq == <<"b", "y", "t", "e", "s", "=">>

\* Python's absent value (range: str | None = None).
None == <<"None">>

\* str.startswith at position i (1-based).
StartsWithAt(s, pat, i) ==
    /\ i + Len(pat) - 1 <= Len(s)
    /\ \A k \in 1..Len(pat) : s[i + k - 1] = pat[k]

\* str.replace(pat, ""): every non-overlapping occurrence, left to right.
RECURSIVE RemoveAll(_, _)
RemoveAll(s, pat) ==
    IF s = <<>> THEN <<>>
    ELSE IF StartsWithAt(s, pat, 1)
         THEN RemoveAll(SubSeq(s, Len(pat) + 1, Len(s)), pat)
         ELSE <<Head(s)>> \o RemoveAll(Tail(s), pat)

\* str.split(sep) for a one-character separator: the list of fields.
RECURSIVE Split(_, _)
Split(s, sep) ==
    IF \A i \in 1..Len(s) : s[i] /= sep THEN <<s>>
    ELSE LET i == CHOOSE k \in 1..Len(s) :
                      s[k] = sep /\ \A j \in 1..(k - 1) : s[j] /= sep
         IN <<SubSeq(s, 1, i - 1)>> \o Split(SubSeq(s, i + 1, Len(s)), sep)

\* str.strip() of blanks.
RECURSIVE Strip(_)
Strip(s) ==
    IF s = <<>> THEN s
    ELSE IF Head(s) = " " THEN Strip(Tail(s))
    ELSE IF s[Len(s)] = " " THEN Strip(SubSeq(s, 1, Len(s) - 1))
    ELSE s

\* The value of a digit string with single underscores between digits.
RECURSIVE DigitsValue(_, _)
DigitsValue(s, acc) ==
    IF s = <<>> THEN acc
    ELSE IF Head(s) = "_" THEN DigitsValue(Tail(s), acc)
    ELSE DigitsValue(Tail(s), 10 * acc + DigitVal(Head(s)))

\* What int() accepts after the sign: digits, single underscores inside.
IsIntBody(s) ==
    /\ s /= <<>>
    /\ IsDigit(s[1]) /\ IsDigit(s[Len(s)])
    /\ \A i \in 1..Len(s) : IsDigit(s[i]) \/ s[i] = "_"
    /\ \A i \in 1..(Len(s) - 1) : ~(s[i] = "_" /\ s[i + 1] = "_")

\* Mutant of int: the empty string read as 0.
int_empty_is_zero(s) ==
    LET t == Strip(s)
    IN IF t = <<>> THEN [ok |-> TRUE, val |-> 0]
       ELSE IF IsIntBody(t) THEN [ok |-> TRUE, val |-> DigitsValue(t, 0)]
       ELSE [ok |-> FALSE, val |-> 0]

\* Python's int(str): blanks stripped, an optional sign, then the digits;
\* ok = FALSE is ValueError.
int(s) ==
    LET t == Strip(s)
        signed == t /= <<>> /\ t[1] \in {"+", "-"}
        body == IF signed THEN Tail(t) ELSE t
    IN IF IsIntBody(body)
       THEN [ok |-> TRUE,
             val |-> IF signed /\ t[1] = "-" THEN 0 - DigitsValue(body, 0)
                     ELSE DigitsValue(body, 0)]
       ELSE [ok |-> FALSE, val |-> 0]

\* Python's str(int).
RECURSIVE NatStr(_)
NatStr(n) ==
    IF n < 10 THEN <<Digits[n + 1]>>
    ELSE NatStr(n \div 10) \o <<Digits[(n % 10) + 1]>>

str(n) == IF n < 0 THEN <<"-">> \o NatStr(0 - n) ELSE NatStr(n)


\* ------------------------------------------------------- get_range_header
\* Mutant of default_end: the file's size instead of its last offset.
default_end_is_size(file_size) == file_size

\* Line 108: the end of an open-ended range.
default_end(file_size) == file_size - 1

\* The body of get_range_header's try block.  raised = "" is a normal
\* return; "ValueError" is a failed unpacking or int(); "HTTPException" is
\* the raise of line 110.
range_try(range_header, file_size) ==
    LET range_str == RemoveAll(range_header, bytes_eq)
        parts == Split(range_str, "-")
        start == int(parts[1])
        end == IF parts[2] /= <<>> THEN int(parts[2])
               ELSE [ok |-> TRUE, val |-> default_end(file_size)]
    IN IF Len(parts) /= 2 \/ ~start.ok \/ ~end.ok
       THEN [raised |-> "ValueError", start |-> 0, end |-> 0]
       ELSE IF start.val >= file_size \/ end.val >= file_size
               \/ start.val > end.val
       THEN [raised |-> "HTTPException", start |-> start.val, end |-> end.val]
       ELSE [raised |-> "", start |-> start.val, end |-> end.val]

\* The full-file default (0, file_size - 1, False).
full_file(file_size) ==
    [raised |-> "", start |-> 0, end |-> file_size - 1, is_partial |-> FALSE]

\* Mutant of get_range_header: the range returned without the check of
\* line 109.
get_range_header_unchecked(range_header, file_size) ==
    LET t == range_try(range_header, file_size)
    IN IF t.raised = "ValueError" THEN full_file(file_size)
       ELSE [raised |-> "", start |-> t.start, end |-> t.end,
             is_partial |-> TRUE]

\* get_range_header: "except Exception" catches whatever the try block
\* raised, the HTTPException of line 110 included, and returns the default.
get_range_header(range_header, file_size) ==
    LET t == range_try(range_header, file_size)
    IN IF t.raised /= "" THEN full_file(file_size)
       ELSE [raised |-> "", start |-> t.start, end |-> t.end,
             is_partial |-> TRUE]

\* ------------------------------------------------------------ file system
FilePath == "/a.txt"
DirPath == "/d"
MissingPath == "/x"
Paths == {FilePath, DirPath, MissingPath}

\* The root directory and the files in it that the listing, download and
\* upload handlers work on.
RootPath == "/"
LogPath == "/s.log"
MkvPath == "/M.MKV"
XyzPath == "/b.xyz"
AllPaths == Paths \cup {RootPath, LogPath, MkvPath, XyzPath}

\* Path.name
name_of(p) ==
    CASE p = FilePath -> "a.txt" [] p = DirPath -> "d" [] p = MissingPath -> "x"
      [] p = LogPath -> "s.log" [] p = MkvPath -> "M.MKV"
      [] p = XyzPath -> "b.xyz" [] OTHER -> ""

\* Path.suffix
suffix_of(p) ==
    CASE p = FilePath -> ".txt" [] p = LogPath -> ".log"
      [] p = MkvPath -> ".MKV" [] p = XyzPath -> ".xyz" [] OTHER -> ""

\* str.lower() of a suffix.
lower(ext) == IF ext = ".MKV" THEN ".mkv" ELSE ext

\* The position of name.lower() in alphabetical order (the sort key of
\* line 134).
name_rank(p) ==
    CASE p = FilePath -> 1 [] p = XyzPath -> 2 [] p = DirPath -> 3
      [] p = MkvPath -> 4 [] p = LogPath -> 5 [] OTHER -> 6

\* Path.parent: every other path is an entry of the root directory.
parent_of(p) == RootPath

\* The suffixes the system's mime database may know.
Suffixes == {".txt", ".log", ".mkv", ".xyz", ""}

\* The database Python ships: .txt is text/plain.
BuiltinDb == [e \in Suffixes |-> IF e = ".txt" THEN "text/plain" ELSE "None"]

\* The databases a system may have: the built-in one, with or without
\* entries for .log and .mkv.
MimeDbs ==
    { [e \in Suffixes |->
          IF e = ".log" /\ log THEN "text/plain"
          ELSE IF e = ".mkv" /\ mkv THEN "video/x-matroska"
          ELSE BuiltinDb[e]] : log \in BOOLEAN, mkv \in BOOLEAN }

\* The byte stored at a file offset: distinct bytes at distinct offsets, so
\* that a displaced or repeated byte shows.
ByteAt(off) == (7 * off + 3) % 256

FileData(n) == [i \in 1..n |-> ByteAt(i - 1)]


Requests == 1..NumRequests

VARIABLES
    kind,          \* path -> "file" | "dir" | "absent"
    data,          \* path -> the bytes of the file (of its inode)
    mime_db,       \* suffix -> mime type in the system's database, or "None"
    api,           \* request -> what a listing, download or upload answered
    pc,            \* request -> where the request is
    path,          \* request -> the resolved path
    range,         \* request -> view_file's range parameter
    file_size,     \* request -> st_size read by view_file
    byte_range,    \* request -> (start, end, is_partial)
    response,      \* request -> status_code and headers returned
    handle,        \* request -> "none" | "open" | "closed"
    cursor,        \* request -> file position of its handle
    body,          \* request -> the bytes its generator has yielded
    reads,         \* request -> number of f.read calls issued
    disconnected,  \* request -> the client closed the connection
    error,         \* request -> the exception that ended the stream
    phases         \* request -> the states the request has been in, in order

vars == <<kind, data, mime_db, api, pc, path, range, file_size, byte_range, response,
          handle, cursor, body, reads, disconnected, error, phases>>

fs_vars == <<kind, data, mime_db>>
view_vars == <<path, range, file_size, byte_range, response, api>>
stream_vars == <<handle, cursor, body, reads, error>>

NoResponse == [status_code |-> 0, headers |-> <<>>]

\* No listing, download or upload was answered.
NoCall == [handler |-> "", raised |-> 0, status_code |-> 0]

\* mimetypes.guess_type: the suffix as written, then in lower case ("None"
\* when the database has neither).
guess_type(p) ==
    LET ext == suffix_of(p)
    IN IF ext \in Suffixes /\ mime_db[ext] /= "None" THEN mime_db[ext]
       ELSE IF lower(ext) \in Suffixes THEN mime_db[lower(ext)]
       ELSE "None"

\* The requests not yet handled, the root directory with files (the one
\* at FilePath of a size in sizes), and a mime database of dbs.
InitFor(sizes, files, dbs) ==
    /\ kind = [p \in AllPaths |->
                  IF p \in files THEN "file"
                  ELSE IF p \in {DirPath, RootPath} THEN "dir" ELSE "absent"]
    /\ \E n \in sizes :
         data = [p \in AllPaths |->
                    IF p = FilePath THEN FileData(n)
                    ELSE IF p \in files THEN FileData(1) ELSE <<>>]
    /\ mime_db \in dbs
    /\ api = [r \in Requests |-> NoCall]
    /\ pc = [r \in Requests |-> "Received"]
    /\ path = [r \in Requests |-> ""]
    /\ range = [r \in Requests |-> None]
    /\ file_size = [r \in Requests |-> 0]
    /\ byte_range = [r \in Requests |-> full_file(0)]
    /\ response = [r \in Requests |-> NoResponse]
    /\ handle = [r \in Requests |-> "none"]
    /\ cursor = [r \in Requests |-> 0]
    /\ body = [r \in Requests |-> <<>>]
    /\ reads = [r \in Requests |-> 0]
    /\ disconnected = [r \in Requests |-> FALSE]
    /\ error = [r \in Requests |-> ""]
    /\ phases = [r \in Requests |-> <<"Received">>]

Init == InitFor(0..MaxSharedSize, {FilePath}, {BuiltinDb})

InitView == InitFor(0..MaxFileSize, {FilePath}, {BuiltinDb})

\* ---------------------------------------------------------------- view_file
\* "if range": None and the empty string are false.
Truthy(h) == h /= None /\ h /= <<>>

\* Line 156: the range view_file works with.
parsed_range(h, size) ==
    IF Truthy(h) THEN get_range_header(h, size) ELSE full_file(size)

\* Line 164.
status_of(is_partial) == IF is_partial THEN 206 ELSE 200

\* Mutant of content_length_of: the last byte not counted.
content_length_exclusive(start, end) == end - start

\* Line 157.
content_length_of(start, end) == end - start + 1

\* Line 167: f"bytes {start}-{end}/{file_size}".
content_range_of(start, end, size) ==
    <<"b", "y", "t", "e", "s", " ">> \o str(start) \o <<"-">> \o str(end)
        \o <<"/">> \o str(size)

\* Lines 153-154 and 159-167.
headers_of(p, rng, size) ==
    LET mime_type == IF guess_type(p) = "None"
                     THEN "application/octet-stream" ELSE guess_type(p)
        base == ("Content-Type" :> mime_type)
                @@ ("Accept-Ranges" :> "bytes")
                @@ ("Content-Length" :>
                        str(content_length_of(rng.start, rng.end)))
    IN IF rng.is_partial
       THEN base @@ ("Content-Range" :>
                         content_range_of(rng.start, rng.end, size))
       ELSE base

\* Mutant of not_found: a directory passes the check.
not_found_unless_exists(p) == kind[p] = "absent"

\* Line 149: not full_path.exists() or full_path.is_dir().
not_found(p) == kind[p] /= "file"

\* view_file, lines 145-178, for request r with its path and range
\* parameter.  The handler has no await: it runs to its return or raise.
view_file(r, p, h) ==
    /\ pc[r] = "Received"
    /\ path' = [path EXCEPT ![r] = p]
    /\ range' = [range EXCEPT ![r] = h]
    /\ IF not_found(p)
       THEN \* line 150, re-raised by line 175
            /\ pc' = [pc EXCEPT ![r] = "Failed"]
            /\ phases' = [phases EXCEPT ![r] = Append(@, "Failed")]
            /\ response' = [response EXCEPT ![r] =
                               [status_code |-> 404, headers |-> <<>>]]
            /\ UNCHANGED <<file_size, byte_range>>
       ELSE LET size == Len(data[p])
                rng == parsed_range(h, size)
            IN /\ file_size' = [file_size EXCEPT ![r] = size]
               /\ byte_range' = [byte_range EXCEPT ![r] = rng]
               /\ IF rng.raised /= ""
                  THEN \* an HTTPException out of line 156, line 175
                       /\ pc' = [pc EXCEPT ![r] = "Failed"]
                       /\ phases' = [phases EXCEPT ![r] =
                                        Append(@, "Failed")]
                       /\ response' = [response EXCEPT ![r] =
                                          [status_code |-> 416,
                                           headers |-> <<>>]]
                  ELSE \* line 156 returned, then lines 157-173
                       /\ pc' = [pc EXCEPT ![r] = "HeadersBuilt"]
                       /\ phases' = [phases EXCEPT ![r] =
                              @ \o <<"RangeValidated", "HeadersBuilt">>]
                       /\ response' = [response EXCEPT ![r] =
                              [status_code |-> status_of(rng.is_partial),
                               headers |-> headers_of(p, rng, size)]]
    /\ UNCHANGED <<fs_vars, stream_vars, disconnected, api>>

\* ------------------------------------------------ async_iterate_file_chunks
\* Mutant of read: a short last chunk is lost.
read_whole_chunks(bytes, pos, n) ==
    IF pos + n <= Len(bytes) THEN SubSeq(bytes, pos + 1, pos + n) ELSE <<>>

\* Mutant of read: one byte more than asked for is returned.
read_one_more(bytes, pos, n) ==
    SubSeq(bytes, pos + 1,
           IF pos + n + 1 < Len(bytes) THEN pos + n + 1 ELSE Len(bytes))

\* f.read(chunk_size) at file position pos.
read(bytes, pos, n) ==
    SubSeq(bytes, pos + 1, IF pos + n < Len(bytes) THEN pos + n ELSE Len(bytes))

\* Mutant of move_cursor: one file position shared by every handle.
move_shared_cursor(cur, r, pos) == [q \in DOMAIN cur |-> pos]

\* f.seek / the position after a read: only the handle's own cursor moves.
move_cursor(cur, r, pos) == [cur EXCEPT ![r] = pos]

\* Mutant of can_pull: the next chunk asked for although the client left.
can_pull_after_disconnect(r) == pc[r] = "Yielded"

\* The transport asks for the next chunk only while the client is there.
can_pull(r) == pc[r] = "Yielded" /\ ~disconnected[r]

\* Lines 94-97, the first pull of the body: aiofiles.open, seek(start) and
\* the first read issued.  The response (status, headers) was returned by
\* view_file before the generator's first line runs.
open_file(r) ==
    /\ pc[r] = "HeadersBuilt"
    /\ IF kind[path[r]] = "file"
       THEN /\ handle' = [handle EXCEPT ![r] = "open"]
            /\ cursor' = move_cursor(cursor, r, byte_range[r].start)
            /\ reads' = [reads EXCEPT ![r] = @ + 1]
            /\ pc' = [pc EXCEPT ![r] = "ReadPending"]
            /\ phases' = [phases EXCEPT ![r] = Append(@, "Streaming")]
            /\ UNCHANGED error
       ELSE /\ error' = [error EXCEPT ![r] = "FileNotFoundError"]
            /\ pc' = [pc EXCEPT ![r] = "Aborted"]
            /\ phases' = [phases EXCEPT ![r] = Append(@, "Aborted")]
            /\ UNCHANGED <<handle, cursor, reads>>
    /\ UNCHANGED <<fs_vars, view_vars, body, disconnected>>

\* Lines 97-100: the pending read returns.  An empty chunk ends the loop and
\* leaves the "async with" block, which closes the handle; any other chunk
\* is yielded.
read_chunk(r) ==
    /\ pc[r] = "ReadPending"
    /\ ~disconnected[r]
    /\ LET chunk == read(data[path[r]], cursor[r], chunk_size)
       IN /\ cursor' = move_cursor(cursor, r, cursor[r] + Len(chunk))
          /\ IF chunk = <<>>
             THEN /\ pc' = [pc EXCEPT ![r] = "Completed"]
                  /\ phases' = [phases EXCEPT ![r] = Append(@, "Completed")]
                  /\ handle' = [handle EXCEPT ![r] = "closed"]
                  /\ UNCHANGED body
             ELSE /\ pc' = [pc EXCEPT ![r] = "Yielded"]
                  /\ body' = [body EXCEPT ![r] = @ \o chunk]
                  /\ UNCHANGED <<handle, phases>>
    /\ UNCHANGED <<fs_vars, view_vars, reads, disconnected, error>>

\* Lines 96-97: the generator is resumed after its yield and issues the
\* next read.
next_chunk(r) ==
    /\ can_pull(r)
    /\ reads' = [reads EXCEPT ![r] = @ + 1]
    /\ pc' = [pc EXCEPT ![r] = "ReadPending"]
    /\ UNCHANGED <<fs_vars, view_vars, handle, cursor, body, disconnected,
                   error, phases>>

\* Line 97 raises (a failing disk): the exception leaves the "async with"
\* block of line 94, which closes the handle.
read_error(r) ==
    /\ pc[r] = "ReadPending"
    /\ ~disconnected[r]
    /\ handle' = [handle EXCEPT ![r] = "closed"]
    /\ error' = [error EXCEPT ![r] = "OSError"]
    /\ pc' = [pc EXCEPT ![r] = "Aborted"]
    /\ phases' = [phases EXCEPT ![r] = Append(@, "Aborted")]
    /\ UNCHANGED <<fs_vars, view_vars, cursor, body, reads, disconnected>>

\* The client closes the connection while the body is streamed.
client_disconnect(r) ==
    /\ pc[r] \in {"ReadPending", "Yielded"}
    /\ ~disconnected[r]
    /\ disconnected' = [disconnected EXCEPT ![r] = TRUE]
    /\ UNCHANGED <<fs_vars, view_vars, stream_vars, pc, phases>>

\* The transport cancels the stream of a client that left: CancelledError
\* (at the await of line 97) or GeneratorExit (at the yield of line 100)
\* leaves the "async with" block of line 94, which closes the handle.
cancel_stream(r) ==
    /\ disconnected[r]
    /\ pc[r] \in {"ReadPending", "Yielded"}
    /\ handle' = [handle EXCEPT ![r] = "closed"]
    /\ error' = [error EXCEPT ![r] = "CancelledError"]
    /\ pc' = [pc EXCEPT ![r] = "Aborted"]
    /\ phases' = [phases EXCEPT ![r] = Append(@, "Aborted")]
    /\ UNCHANGED <<fs_vars, view_vars, cursor, body, reads, disconnected>>

\* Another process removes the file.  A handle already open keeps reading
\* the file's bytes.
delete_file(p) ==
    /\ kind[p] = "file"
    /\ kind' = [kind EXCEPT ![p] = "absent"]
    /\ UNCHANGED <<data, mime_db, pc, view_vars, stream_vars, disconnected,
                   phases>>

\* ------------------------------------------------------------ get_file_info
\* Lines 50-71: the fallback table.
mime_map ==
    (".txt" :> "text/plain") @@ (".log" :> "text/plain")
    @@ (".conf" :> "text/plain") @@ (".sh" :> "text/x-shellscript")
    @@ (".bashrc" :> "text/plain") @@ (".profile" :> "text/plain")
    @@ (".pdf" :> "application/pdf") @@ (".json" :> "application/json")
    @@ (".xml" :> "application/xml") @@ (".html" :> "text/html")
    @@ (".css" :> "text/css") @@ (".js" :> "application/javascript")
    @@ (".mp4" :> "video/mp4") @@ (".mkv" :> "video/x-matroska")
    @@ (".avi" :> "video/x-msvideo") @@ (".mov" :> "video/quicktime")
    @@ (".webm" :> "video/webm") @@ (".mp3" :> "audio/mpeg")
    @@ (".wav" :> "audio/wav") @@ (".ogg" :> "audio/ogg")

\* Line 72: mime_map.get(extension, 'application/octet-stream').
mime_map_get(extension) ==
    IF extension \in DOMAIN mime_map THEN mime_map[extension]
    ELSE "application/octet-stream"

\* Lines 153-154 and 193: guess_type(...)[0] or "application/octet-stream".
guess_or_default(p) ==
    IF guess_type(p) = "None" THEN "application/octet-stream"
    ELSE guess_type(p)

\* humanize.naturalsize of a size below 1000: "1 Byte", "<n> Bytes".
naturalsize(n) ==
    str(n) \o (IF n = 1 THEN <<" ", "B", "y", "t", "e">>
               ELSE <<" ", "B", "y", "t", "e", "s">>)

\* get_file_info, lines 42-80.
get_file_info(p) ==
    LET is_dir == kind[p] = "dir"
        size_bytes == IF is_dir THEN 0 ELSE Len(data[p])
        guessed == IF is_dir THEN "None" ELSE guess_type(p)
        mime_type == IF guessed = "None" /\ ~is_dir
                     THEN mime_map_get(lower(suffix_of(p)))
                     ELSE guessed
    IN [name |-> name_of(p), path |-> p, is_dir |-> is_dir,
        size |-> naturalsize(size_bytes), size_bytes |-> size_bytes,
        mime_type |-> mime_type]

\* full_path.iterdir(): the entries of directory p.
iterdir(p) == {q \in AllPaths \ {RootPath} :
                  parent_of(q) = p /\ kind[q] /= "absent"}

\* Line 134: key=lambda x: (not x.is_dir, x.name.lower()).
sort_key(info) == <<IF info.is_dir THEN 0 ELSE 1, name_rank(info.path)>>

key_less(a, b) == a[1] < b[1] \/ (a[1] = b[1] /\ a[2] < b[2])

\* sorted(files, key=...).
RECURSIVE sorted(_)
sorted(infos) ==
    IF infos = {} THEN <<>>
    ELSE LET first == CHOOSE x \in infos :
                          \A y \in infos \ {x} :
                              key_less(sort_key(x), sort_key(y))
         IN <<first>> \o sorted(infos \ {first})

\* ------------------------------------------- list, download, upload handlers
\* "except Exception" of lines 138-140, 195-197 and 215-217: whatever the
\* try block raised, the HTTPException of a precondition check included, is
\* answered 500.
answer_raised(handler, status) ==
    [handler |-> handler, raised |-> status, status_code |-> 500]

\* list_directory, lines 116-140.
list_directory(r, p) ==
    /\ pc[r] = "Received"
    /\ pc' = [pc EXCEPT ![r] = "Answered"]
    /\ path' = [path EXCEPT ![r] = p]
    /\ api' = [api EXCEPT ![r] =
                 IF kind[p] = "absent"
                 THEN answer_raised("list_directory", 404)
                 ELSE IF kind[p] /= "dir"
                 THEN answer_raised("list_directory", 400)
                 ELSE [handler |-> "list_directory", raised |-> 0,
                       status_code |-> 200,
                       current_path |-> p,
                       files |-> sorted({get_file_info(q) : q \in iterdir(p)}),
                       parent_path |-> IF p /= RootPath THEN parent_of(p)
                                       ELSE "None"]]
    /\ UNCHANGED <<fs_vars, stream_vars, disconnected, phases, range,
                   file_size, byte_range, response>>

\* download_file, lines 181-197.
download_file(r, p) ==
    /\ pc[r] = "Received"
    /\ pc' = [pc EXCEPT ![r] = "Answered"]
    /\ path' = [path EXCEPT ![r] = p]
    /\ api' = [api EXCEPT ![r] =
                 IF kind[p] /= "file"
                 THEN answer_raised("download_file", 404)
                 ELSE [handler |-> "download_file", raised |-> 0,
                       status_code |-> 200,
                       filename |-> name_of(p),
                       media_type |-> guess_or_default(p)]]
    /\ UNCHANGED <<fs_vars, stream_vars, disconnected, phases, range,
                   file_size, byte_range, response>>

\* upload_file, lines 200-217, of content under the name of target into
\* directory p: full_path / file.filename is target when p is its parent.
upload_file(r, p, target, content) ==
    /\ pc[r] = "Received"
    /\ parent_of(target) = p \/ kind[p] /= "dir"
    /\ pc' = [pc EXCEPT ![r] = "Answered"]
    /\ path' = [path EXCEPT ![r] = p]
    /\ IF kind[p] /= "dir"
       THEN /\ api' = [api EXCEPT ![r] = answer_raised("upload_file", 400)]
            /\ UNCHANGED <<kind, data>>
       ELSE /\ api' = [api EXCEPT ![r] =
                         [handler |-> "upload_file", raised |-> 0,
                          status_code |-> 200, filename |-> name_of(target)]]
            /\ kind' = [kind EXCEPT ![target] = "file"]
            /\ data' = [data EXCEPT ![target] = content]
    /\ UNCHANGED <<mime_db, stream_vars, disconnected, phases, range,
                   file_size, byte_range, response>>

\* ------------------------------------------------------------------ inputs
\* bytes=<start>-<end>
RangeOf(s, e) == bytes_eq \o str(s) \o <<"-">> \o str(e)

\* bytes=<start>-
OpenRangeOf(s) == bytes_eq \o str(s) \o <<"-">>

\* <start>-<end>, the "bytes=" prefix missing
BareRangeOf(s, e) == str(s) \o <<"-">> \o str(e)

\* bytes=-<n>, the suffix form
SuffixRangeOf(n) == bytes_eq \o <<"-">> \o str(n)

\* The numbers a Range value names: up to one past the largest file.
Nums == 0..(MaxFileSize + 1)

NumericInputs == {RangeOf(s, e) : s \in Nums, e \in Nums}
OpenInputs == {OpenRangeOf(s) : s \in Nums}
BareInputs == {BareRangeOf(s, e) : s \in Nums, e \in Nums}
SuffixInputs == {SuffixRangeOf(n) : n \in Nums}

\* bytes=abc-def, bytes=a-1, bytes=1-b
NonNumericInputs ==
    { bytes_eq \o <<"a", "b", "c", "-", "d", "e", "f">>,
      bytes_eq \o <<"a", "-", "1">>,
      bytes_eq \o <<"1", "-", "b">> }

\* bytes=, bytes=1, bytes=1-2-3, abc, bytes=0- (a blank end), -
UnparseableInputs ==
    { bytes_eq,
      bytes_eq \o <<"1">>,
      bytes_eq \o <<"1", "-", "2", "-", "3">>,
      <<"a", "b", "c">>,
      bytes_eq \o <<"0", "-", " ">>,
      <<"-">> }

\* Values int() accepts although they are not plain digits:
\* "bytes= 1-2", "bytes=+1-2", "bytes=0-1_0", "bytes=0-bytes=1".
LenientInputs ==
    { bytes_eq \o <<" ", "1", "-", "2">>,
      bytes_eq \o <<"+", "1", "-", "2">>,
      bytes_eq \o <<"0", "-", "1", "_", "0">>,
      bytes_eq \o <<"0", "-">> \o bytes_eq \o <<"1">> }

\* The range parameter of a request of SpecView.
ViewInputs ==
    {None, <<>>} \cup NumericInputs \cup OpenInputs \cup BareInputs
        \cup SuffixInputs \cup NonNumericInputs \cup UnparseableInputs
        \cup LenientInputs

\* The range parameter of a request of Spec: none, or bytes=1-.
SharedInputs == {None, OpenRangeOf(1)}

\* ---------------------------------------------------------- specifications
\* The steps of one request, its range parameter drawn from inputs.
Step(r, inputs) ==
    \/ \E p \in Paths, h \in inputs : view_file(r, p, h)
    \/ open_file(r)
    \/ read_chunk(r)
    \/ next_chunk(r)
    \/ read_error(r)
    \/ client_disconnect(r)
    \/ cancel_stream(r)

\* NumRequests concurrent requests over one file system.
Next ==
    \/ \E r \in Requests : Step(r, SharedInputs)
    \/ \E p \in Paths : delete_file(p)

Spec == Init /\ [][Next]_vars

\* The event loop runs every task that can run, a pending read returns or
\* fails, and a client that has not left keeps asking for the next chunk.
Fairness ==
    \A r \in Requests :
        /\ WF_vars(open_file(r))
        /\ WF_vars(read_chunk(r) \/ read_error(r))
        /\ WF_vars(next_chunk(r))
        /\ WF_vars(cancel_stream(r))

SpecFair == Spec /\ Fairness

\* One request, its range parameter drawn from every shape of value.
NextView ==
    \/ Step(1, ViewInputs)
    \/ \E p \in Paths : delete_file(p)

SpecView == InitView /\ [][NextView]_vars

\* The paths a listing, download or view of SpecApi names.
ApiPaths == {RootPath, DirPath, MissingPath, FilePath, LogPath, MkvPath,
             XyzPath}

\* What an upload of SpecApi writes, and under which names.
UploadContents == {FileData(0), FileData(2)}
UploadTargets == {FilePath, LogPath}

\* The handlers over one file system: a request is a listing, a download,
\* an upload or a view (its response; the streaming of a view is Spec's).
NextApi ==
    \/ \E r \in Requests, p \in ApiPaths : list_directory(r, p)
    \/ \E r \in Requests, p \in ApiPaths : download_file(r, p)
    \/ \E r \in Requests, p \in {RootPath, FilePath, MissingPath},
          t \in UploadTargets, c \in UploadContents :
           upload_file(r, p, t, c)
    \/ \E r \in Requests, p \in ApiPaths : view_file(r, p, None)
    \/ \E p \in {FilePath, LogPath} : delete_file(p)

InitApi ==
    InitFor({1}, {FilePath, LogPath, MkvPath, XyzPath}, MimeDbs)

SpecApi == InitApi /\ [][NextApi]_vars

\* ------------------------------------------------------------------ claims
\* Reading a header value back: the number a string of digits denotes, -1
\* for anything else.
RECURSIVE PlaceValue(_)
PlaceValue(s) ==
    IF s = <<>> THEN 0
    ELSE 10 * PlaceValue(SubSeq(s, 1, Len(s) - 1)) + DigitVal(s[Len(s)])

ReadNat(s) ==
    IF s = <<>> \/ \E i \in 1..Len(s) : ~IsDigit(s[i]) THEN -1
    ELSE PlaceValue(s)

\* v reads "bytes <s>-<e>/<n>".
ReadsAsContentRange(v, s, e, n) ==
    \E i, j \in 1..Len(v) :
        /\ 6 < i /\ i < j
        /\ SubSeq(v, 1, 6) = <<"b", "y", "t", "e", "s", " ">>
        /\ v[i] = "-" /\ v[j] = "/"
        /\ ReadNat(SubSeq(v, 7, i - 1)) = s
        /\ ReadNat(SubSeq(v, i + 1, j - 1)) = e
        /\ ReadNat(SubSeq(v, j + 1, Len(v))) = n

\* view_file returned a StreamingResponse for request r.
Responded(r) == pc[r] \notin {"Received", "Failed"}

\* The bytes [s, e] of request r's file.
FileBytes(r, s, e) == SubSeq(data[path[r]], s + 1, e + 1)

\* The response of request r is the one of a request with no range: 200,
\* no Content-Range, Content-Length the file's size, the range the default.
IsFullFileResponse(r) ==
    /\ byte_range[r] = [raised |-> "", start |-> 0,
                        end |-> file_size[r] - 1, is_partial |-> FALSE]
    /\ response[r].status_code = 200
    /\ DOMAIN response[r].headers =
           {"Content-Type", "Accept-Ranges", "Content-Length"}
    /\ ReadNat(response[r].headers["Content-Length"]) = file_size[r]

\* C1: for every valid range bytes=s-e (0 <= s <= e < fileSize) the body
\* streamed is exactly the bytes [s, e] of the file: never more than
\* e - s + 1 bytes are emitted, and a completed stream emitted exactly them.
C1_RangeBodyExact ==
    \A r \in Requests : \A s, e \in Nums :
        (/\ Responded(r)
         /\ range[r] = RangeOf(s, e)
         /\ s <= e /\ e < file_size[r])
        => /\ Len(body[r]) <= e - s + 1
           /\ pc[r] = "Completed" => body[r] = FileBytes(r, s, e)

\* C2: a numeric range bytes=s-e with s >= fileSize, e >= fileSize or s > e
\* on an existing file is answered 416: no 200/206 response is built and no
\* body byte is emitted.
C2_UnsatisfiableIs416 ==
    \A r \in Requests : \A s, e \in Nums :
        (/\ pc[r] /= "Received"
         /\ response[r].status_code /= 404
         /\ range[r] = RangeOf(s, e)
         /\ (s >= file_size[r] \/ e >= file_size[r] \/ s > e))
        => /\ pc[r] = "Failed"
           /\ response[r].status_code = 416
           /\ body[r] = <<>>

\* C3: in every response view_file builds, the status is 206 exactly when
\* is_partial and 200 otherwise, Content-Range is present exactly when
\* is_partial and then reads "bytes start-end/fileSize", Content-Length
\* reads end - start + 1, and Accept-Ranges is "bytes".
C3_ResponseHeaders ==
    \A r \in Requests :
        Responded(r) =>
            LET rng == byte_range[r]
                h == response[r].headers
            IN /\ response[r].status_code = 206 <=> rng.is_partial
               /\ response[r].status_code = 200 <=> ~rng.is_partial
               /\ "Content-Range" \in DOMAIN h <=> rng.is_partial
               /\ rng.is_partial =>
                      ReadsAsContentRange(h["Content-Range"], rng.start,
                                          rng.end, file_size[r])
               /\ ReadNat(h["Content-Length"]) = rng.end - rng.start + 1
               /\ h["Accept-Ranges"] = "bytes"

\* C3's case: a 10-byte file asked for bytes=5-9 is answered 206 (the
\* spec's 10,000-byte scenario, scaled).
C3_Witness ==
    \E r \in Requests :
        /\ pc[r] = "HeadersBuilt"
        /\ file_size[r] = 10
        /\ range[r] = RangeOf(5, 9)
        /\ response[r].status_code = 206

\* C4: a request with no range on an existing regular file of any size, 0
\* included, is answered 200 with Content-Length the file's size, and the
\* chunks of its completed stream concatenate to the whole file.
C4_FullFileRoundTrip ==
    \A r \in Requests :
        (Responded(r) /\ range[r] = None) =>
            /\ response[r].status_code = 200
            /\ ReadNat(response[r].headers["Content-Length"])
                   = Len(data[path[r]])
            /\ pc[r] = "Completed" => body[r] = data[path[r]]

\* C4's case: a whole file of several chunks, the last one short, was
\* streamed to its end.
C4_Witness ==
    \E r \in Requests :
        /\ range[r] = None
        /\ pc[r] = "Completed"
        /\ Len(body[r]) > 2 * chunk_size
        /\ Len(body[r]) % chunk_size /= 0

\* C4's other case: an empty file streamed to its end.
C4_WitnessEmpty ==
    \E r \in Requests :
        range[r] = None /\ pc[r] = "Completed" /\ file_size[r] = 0

\* The values C5 calls malformed: non-numeric bounds, the "bytes=" prefix
\* missing, the suffix form, anything else unparseable.
ClaimedMalformed ==
    NonNumericInputs \cup BareInputs \cup SuffixInputs \cup UnparseableInputs

\* C5 as stated: every malformed value, "0-99" without its prefix included,
\* is answered like a request with no range.
C5_MalformedIsFullFile ==
    \A r \in Requests :
        (Responded(r) /\ range[r] \in ClaimedMalformed)
            => IsFullFileResponse(r)

\* C5 as amended: a value with non-numeric bounds, in the suffix form or
\* otherwise unparseable is answered like a request with no range; a value
\* that only lacks the "bytes=" prefix is parsed as a range, and s-e with
\* 0 <= s <= e < fileSize is answered 206 for (s, e).
C5_MalformedExceptBare ==
    \A r \in Requests :
        Responded(r) =>
            /\ range[r] \in NonNumericInputs \cup SuffixInputs
                               \cup UnparseableInputs
                   => IsFullFileResponse(r)
            /\ \A s, e \in Nums :
                   (range[r] = BareRangeOf(s, e) /\ s <= e
                        /\ e < file_size[r])
                   => /\ byte_range[r].start = s
                      /\ byte_range[r].end = e
                      /\ byte_range[r].is_partial
                      /\ response[r].status_code = 206

\* C5's cases: bytes=abc-def and bytes=-5 streamed as the whole file, and
\* 0-1 without prefix answered 206.
C5_Witness ==
    \E r \in Requests :
        /\ range[r] = bytes_eq \o <<"a", "b", "c", "-", "d", "e", "f">>
        /\ pc[r] = "Completed"
        /\ Len(body[r]) > chunk_size

C5_WitnessSuffix ==
    \E r \in Requests :
        /\ range[r] = SuffixRangeOf(5)
        /\ file_size[r] > 5
        /\ pc[r] = "HeadersBuilt"

C5_WitnessBare ==
    \E r \in Requests :
        /\ range[r] = BareRangeOf(0, 1)
        /\ pc[r] = "HeadersBuilt"
        /\ response[r].status_code = 206

\* C6: concurrent requests on one file each own their handle and cursor: a
\* step moves the handle, cursor or output of at most one request, and
\* every request's output is the file's bytes from its own start offset up
\* to its own cursor, the whole rest of the file once it completed.
C6_Isolation ==
    /\ [](\A r \in Requests :
            handle[r] /= "none" =>
                /\ body[r] = FileBytes(r, byte_range[r].start, cursor[r] - 1)
                /\ pc[r] = "Completed" =>
                       body[r] = FileBytes(r, byte_range[r].start,
                                           Len(data[path[r]]) - 1))
    /\ [][\A r, q \in Requests :
            (r /= q /\ <<handle[r], cursor[r], body[r], reads[r]>>
                         /= <<handle'[r], cursor'[r], body'[r], reads'[r]>>)
            => <<handle[q], cursor[q], body[q], reads[q]>>
                 = <<handle'[q], cursor'[q], body'[q], reads'[q]>>]_vars

\* C6's case: two requests stream the same file at once, at different
\* offsets.
C6_Witness ==
    \E r, q \in Requests :
        /\ r /= q
        /\ path[r] = path[q]
        /\ handle[r] = "open" /\ handle[q] = "open"
        /\ pc[r] = "Yielded" /\ pc[q] = "ReadPending"
        /\ cursor[r] > cursor[q]
        /\ body[q] /= <<>>

C8_OpenFailureIs404 ==
    \A r \in Requests :
        error[r] = "FileNotFoundError" => response[r].status_code = 404

\* C9: an open-ended range bytes=s- with 0 <= s < fileSize is parsed to
\* (s, fileSize - 1, true): 206 with Content-Length fileSize - s.
C9_OpenEndedRange ==
    \A r \in Requests : \A s \in Nums :
        (Responded(r) /\ range[r] = OpenRangeOf(s) /\ s < file_size[r])
        => /\ byte_range[r].start = s
           /\ byte_range[r].end = file_size[r] - 1
           /\ byte_range[r].is_partial
           /\ response[r].status_code = 206
           /\ ReadNat(response[r].headers["Content-Length"])
                  = file_size[r] - s

\* C9's case: bytes=8- on a 10-byte file (the spec's bytes=9990- scenario,
\* scaled).
C9_Witness ==
    \E r \in Requests :
        /\ range[r] = OpenRangeOf(8)
        /\ file_size[r] = 10
        /\ pc[r] = "HeadersBuilt"
        /\ response[r].headers["Content-Length"] = <<"2">>

\* C10 as stated: every range view_file builds a response from satisfies
\* 0 <= start <= end < fileSize, for every file size, 0 included.
C10_RangeWithinFile ==
    \A r \in Requests :
        Responded(r) =>
            /\ 0 <= byte_range[r].start
            /\ byte_range[r].start <= byte_range[r].end
            /\ byte_range[r].end < file_size[r]

\* C10 as amended: the range satisfies 0 <= start <= end < fileSize for
\* every file of at least one byte; for an empty file it is the default
\* (0, -1, false), whose start exceeds its end.
C10_RangeWithinNonEmptyFile ==
    \A r \in Requests :
        Responded(r) =>
            IF file_size[r] = 0
            THEN /\ byte_range[r].start = 0
                 /\ byte_range[r].end = -1
                 /\ ~byte_range[r].is_partial
            ELSE /\ 0 <= byte_range[r].start
                 /\ byte_range[r].start <= byte_range[r].end
                 /\ byte_range[r].end < file_size[r]

\* C10's cases: an empty file asked for bytes=0-0, and a file asked for a
\* range that ends past it.
C10_Witness ==
    \E r \in Requests :
        /\ file_size[r] = 0
        /\ range[r] = RangeOf(0, 0)
        /\ pc[r] = "HeadersBuilt"

C10_WitnessPastEnd ==
    \E r \in Requests :
        /\ file_size[r] = 3
        /\ range[r] = RangeOf(1, 3)
        /\ pc[r] = "HeadersBuilt"

\* C11: within one stream the chunks come in file offset order and
\* contiguously: while nothing is emitted the cursor is at the start offset,
\* every chunk emitted is the 1..chunk_size bytes of the file that begin
\* where the previous chunk ended, and the stream completes exactly at the
\* first read that returns no byte.
C11_ChunksInOrder ==
    /\ [](\A r \in Requests :
            (handle[r] = "open" /\ body[r] = <<>>)
                => cursor[r] = byte_range[r].start)
    /\ [][\A r \in Requests :
            /\ body'[r] /= body[r] =>
                 LET n == Len(body'[r]) - Len(body[r])
                 IN /\ 1 <= n /\ n <= chunk_size
                    /\ body'[r] = body[r] \o FileBytes(r, cursor[r],
                                                       cursor[r] + n - 1)
                    /\ cursor'[r] = cursor[r] + n
                    /\ pc'[r] = "Yielded"
            /\ (pc[r] = "ReadPending" /\ pc'[r] = "Completed") =>
                 /\ body'[r] = body[r]
                 /\ cursor[r] >= Len(data[path[r]])
            /\ (pc[r] = "ReadPending" /\ pc'[r] = "Yielded") =>
                 body'[r] /= body[r]
            /\ pc'[r] = "Completed" => pc[r] \in {"ReadPending", "Completed"}
         ]_vars

\* C11's case: a third chunk, shorter than chunk_size, was emitted after
\* two whole ones, from a start offset that is not 0.
C11_Witness ==
    \E r \in Requests :
        /\ byte_range[r].start = 1
        /\ pc[r] = "Yielded"
        /\ reads[r] = 3
        /\ Len(body[r]) = 2 * chunk_size + 1

\* The states of a stream request in the order C12 gives, ended by last.
StateOrder(last) ==
    <<"Received", "RangeValidated", "HeadersBuilt", "Streaming", last>>

IsPrefix(s, t) == Len(s) <= Len(t) /\ s = SubSeq(t, 1, Len(s))

\* The request was answered with an HTTP error before any header was built.
FailedEarly(r) ==
    /\ phases[r] \in {<<"Received", "Failed">>,
                      <<"Received", "RangeValidated", "Failed">>}
    /\ body[r] = <<>>

\* C12 (its safety part): a request goes through Received, RangeValidated,
\* HeadersBuilt, Streaming and then Completed or Aborted, in this order,
\* with no state skipped or revisited; an error of the precondition or of
\* range parsing is raised before the first body byte; Aborted is entered
\* only from Streaming.
C12_StateOrder ==
    \A r \in Requests :
        \/ IsPrefix(phases[r], StateOrder("Completed"))
        \/ IsPrefix(phases[r], StateOrder("Aborted"))
        \/ FailedEarly(r)

\* What holds of C12's order: the same, except that a request whose file is
\* gone at the open is Aborted from HeadersBuilt, before Streaming.
C12_StateOrderExceptOpenFailure ==
    \A r \in Requests :
        \/ IsPrefix(phases[r], StateOrder("Completed"))
        \/ IsPrefix(phases[r], StateOrder("Aborted"))
        \/ FailedEarly(r)
        \/ /\ phases[r] = <<"Received", "RangeValidated", "HeadersBuilt",
                            "Aborted">>
           /\ error[r] = "FileNotFoundError"
           /\ body[r] = <<>>

\* C12 (its liveness part, under SpecFair): a request whose headers were
\* built ends, and it ends Completed unless its file was gone at the open,
\* a read failed or the client left.
C12_EventuallyEnds ==
    \A r \in Requests :
        (pc[r] = "HeadersBuilt") ~> (pc[r] = "Completed" \/ error[r] /= "")

\* C13: a view request whose path does not exist or is a directory when
\* view_file runs is answered 404 before any range parsing, and no handle
\* is opened, no read issued and no body byte emitted for it, then or later.
C13_NotAFileIs404 ==
    /\ [][\A r \in Requests :
            (/\ pc[r] = "Received" /\ pc'[r] /= "Received"
             /\ kind[path'[r]] /= "file")
            => /\ response'[r].status_code = 404
               /\ pc'[r] = "Failed"
               /\ phases'[r] = <<"Received", "Failed">>]_vars
    /\ [](\A r \in Requests :
            pc[r] = "Failed" =>
                handle[r] = "none" /\ reads[r] = 0 /\ body[r] = <<>>)

\* C13's case: a directory asked for with a range that would parse.
C13_Witness ==
    \E r \in Requests :
        /\ path[r] = DirPath
        /\ range[r] = OpenRangeOf(0)
        /\ pc[r] = "Failed"

\* C13's other cases: a path that never existed, and a file deleted before
\* the request.
C13_WitnessMissing ==
    \E r \in Requests :
        /\ path[r] \in {MissingPath, FilePath}
        /\ response[r].status_code = 404

\* The resolution C14 describes: the system's database, then the fallback
\* table, then application/octet-stream.
ThreeStepMime(p) ==
    IF guess_type(p) /= "None" THEN guess_type(p)
    ELSE mime_map_get(lower(suffix_of(p)))

\* The entries of request q's listing, when it answered one.
ListedFiles(q) ==
    IF api[q].handler = "list_directory" /\ api[q].status_code = 200
    THEN {api[q].files[i] : i \in 1..Len(api[q].files)}
    ELSE {}

\* C14: the Content-Type of a view response is resolved by the database,
\* then the fallback table, then the default; hence it equals the mime type
\* a directory listing reports for the same file.
C14_ContentTypeAsListed ==
    \A r \in Requests :
        pc[r] = "HeadersBuilt" =>
            /\ response[r].headers["Content-Type"] = ThreeStepMime(path[r])
            /\ \A q \in Requests : \A f \in ListedFiles(q) :
                   (f.path = path[r] /\ ~f.is_dir)
                   => f.mime_type = response[r].headers["Content-Type"]

\* What holds of C14: view_file resolves in two steps, the database and
\* then the default, and agrees with the listing for every file whose
\* suffix the database knows or the fallback table does not have.
C14_ContentTypeTwoSteps ==
    \A r \in Requests :
        pc[r] = "HeadersBuilt" =>
            /\ response[r].headers["Content-Type"] =
                   (IF guess_type(path[r]) /= "None" THEN guess_type(path[r])
                    ELSE "application/octet-stream")
            /\ \A q \in Requests : \A f \in ListedFiles(q) :
                   (/\ f.path = path[r] /\ ~f.is_dir
                    /\ \/ guess_type(path[r]) /= "None"
                       \/ lower(suffix_of(path[r])) \notin DOMAIN mime_map)
                   => f.mime_type = response[r].headers["Content-Type"]

\* C15: in list_directory, download_file and upload_file the HTTP error a
\* precondition check raises (404, 400) reaches the client with the status
\* it was raised with, and 500 answers only unexpected failures.
C15_RaisedStatusReachesClient ==
    \A r \in Requests :
        api[r].handler /= "" =>
            /\ api[r].raised /= 0 => api[r].status_code = api[r].raised
            /\ api[r].status_code = 500 => api[r].raised = 0

\* What holds of C15: every HTTP error a precondition check of these three
\* handlers raises is answered 500.
C15_RaisedStatusBecomes500 ==
    \A r \in Requests :
        (api[r].handler /= "" /\ api[r].raised /= 0)
            => api[r].status_code = 500

=============================================================================
